---- MODULE Spec2Model ----
(***************************************************************************)
(* Hybrid search of roypr-ma/rag-demo (part 4): BM25 + vector retrieval,   *)
(* Reciprocal Rank Fusion, one-hop graph expansion and the final ordering. *)
(*                                                                         *)
(* The repository holds two revisions of the search program:               *)
(*   "index.ts"  src/4-hybrid-search/index.ts                              *)
(*   "part_008"  src/unnamed/part_008                                      *)
(* Both are modelled; the variable `variant` says which one runs.          *)
(*                                                                         *)
(* Scores are IEEE doubles in the program.  Every score that occurs is a   *)
(* sum of at most four terms 1/(60+r), r in 0..3, or the literal 0.005.    *)
(* They are represented exactly as integers, multiplied by Scale.  Two     *)
(* such sums that differ as rationals differ by more than 1e-6, far above  *)
(* double rounding, and addition of two doubles is commutative, so order   *)
(* and equality of the integers are those of the doubles.                  *)
(***************************************************************************)
EXTENDS Integers, Sequences, FiniteSets, TLC

\* Number of sample profiles that are modelled (the first NumDocs of SAMPLE_DOCS).
NumDocs == 4

\* const k = 60; // RRF constant
k == 60
\* const limit = 3;
limit == 3
\* Common denominator of 1/60, 1/61, 1/62, 1/63 and 1/200.
Scale == 60 * 61 * 62 * 63 * 5

\* embeddingDimensions: 768
embeddingDimensions == 768
\* The vector lengths an embedding provider may deliver: the configured one
\* and a shorter one.
Dims == {embeddingDimensions, embeddingDimensions \div 2}

Variants == {"index.ts", "part_008"}

\* AQL null (a missing array element, and every attribute read from it).
NULL == [coll |-> "null", key |-> "null"]
\* A document handle: _id is "<coll>/<key>", _key is the part after the slash.
Doc(key) == [coll |-> "docs", key |-> key]
Project(key) == [coll |-> "projects", key |-> key]

Min(a, b) == IF a < b THEN a ELSE b
Prefix(s, n) == SubSeq(s, 1, Min(n, Len(s)))
Range(s) == {s[i] : i \in 1..Len(s)}

RECURSIVE Concat(_)
\* The concatenation of a sequence of sequences.
Concat(ss) == IF ss = <<>> THEN <<>> ELSE Head(ss) \o Concat(Tail(ss))

RECURSIVE Distinct(_)
\* A sequence without its repeated elements (the first occurrence is kept).
Distinct(s) ==
  IF s = <<>> THEN <<>>
  ELSE LET r == Distinct(SubSeq(s, 1, Len(s) - 1))
           x == s[Len(s)]
       IN IF x \in Range(r) THEN r ELSE Append(r, x)

(***************************************************************************)
(* Sample data                                                             *)
(***************************************************************************)
SAMPLE_DOCS(v) ==
  IF v = "index.ts"
  THEN <<"alice", "bob", "carol", "david", "emma",
         "frank", "grace", "henry", "iris", "jack">>
  ELSE <<"henry", "emma", "alice", "bob", "carol">>

SAMPLE_PROJECTS(v) ==
  IF v = "index.ts" THEN <<>>
  ELSE <<"hybrid_search", "search_api", "neural_embeddings">>

\* An edge document.  attr is the edge's `project` (index.ts) or `role`
\* (part_008, "" when the edge has none).
Rel(from, to, type, attr) == [_from |-> from, _to |-> to, type |-> type, attr |-> attr]

SAMPLE_RELATIONSHIPS(v) ==
  IF v = "index.ts"
  THEN << Rel(Doc("alice"), Doc("emma"), "collaborates_with", "Neural search research"),
          Rel(Doc("alice"), Doc("carol"), "works_with", "Hybrid ranking systems"),
          Rel(Doc("alice"), Doc("henry"), "consults_with", "Search architecture design"),
          Rel(Doc("bob"), Doc("frank"), "works_with", "Database optimization"),
          Rel(Doc("bob"), Doc("david"), "collaborates_with", "Infrastructure deployment"),
          Rel(Doc("bob"), Doc("henry"), "reports_to", "Backend team"),
          Rel(Doc("carol"), Doc("emma"), "collaborates_with", "Research papers"),
          Rel(Doc("carol"), Doc("alice"), "mentors", "ML best practices"),
          Rel(Doc("emma"), Doc("jack"), "works_with", "Research documentation"),
          Rel(Doc("frank"), Doc("henry"), "advises", "Database strategy"),
          Rel(Doc("grace"), Doc("alice"), "manages", "ML features roadmap"),
          Rel(Doc("grace"), Doc("iris"), "manages", "UI/UX improvements"),
          Rel(Doc("grace"), Doc("henry"), "works_with", "Product strategy"),
          Rel(Doc("henry"), Doc("jack"), "collaborates_with", "Architecture docs"),
          Rel(Doc("iris"), Doc("bob"), "works_with", "API integration"),
          Rel(Doc("iris"), Doc("jack"), "collaborates_with", "UI documentation"),
          Rel(Doc("jack"), Doc("david"), "works_with", "Deployment guides") >>
  ELSE << Rel(Doc("emma"), Doc("henry"), "reports_to", ""),
          Rel(Doc("bob"), Doc("henry"), "reports_to", ""),
          Rel(Doc("alice"), Doc("emma"), "reports_to", ""),
          Rel(Doc("carol"), Doc("emma"), "reports_to", ""),
          Rel(Doc("alice"), Doc("carol"), "collaborates_with", ""),
          Rel(Doc("carol"), Doc("alice"), "collaborates_with", ""),
          Rel(Doc("bob"), Doc("alice"), "works_with", ""),
          Rel(Doc("emma"), Doc("henry"), "advises", ""),
          Rel(Doc("alice"), Project("hybrid_search"), "works_on", "Lead ML Engineer"),
          Rel(Doc("carol"), Project("hybrid_search"), "works_on", "Data Scientist"),
          Rel(Doc("bob"), Project("search_api"), "works_on", "Lead Backend Engineer"),
          Rel(Doc("alice"), Project("search_api"), "works_on", "ML Integration"),
          Rel(Doc("emma"), Project("neural_embeddings"), "works_on", "Principal Investigator"),
          Rel(Doc("alice"), Project("neural_embeddings"), "works_on", "Research Engineer") >>

\* The ingested profiles, in ingestion order; the model keeps the first NumDocs.
IngestedDocs(v) ==
  LET s == Prefix(SAMPLE_DOCS(v), NumDocs) IN [i \in 1..Len(s) |-> Doc(s[i])]
IngestedProjects(v) ==
  LET s == SAMPLE_PROJECTS(v) IN [i \in 1..Len(s) |-> Project(s[i])]
\* The ingested edges, in ingestion order: those between modelled vertices.
IngestedEdges(v) ==
  LET V == Range(IngestedDocs(v)) \cup Range(IngestedProjects(v))
      Kept(e) == e._from \in V /\ e._to \in V
  IN SelectSeq(SAMPLE_RELATIONSHIPS(v), Kept)

\* Every ranked list a sub-query can deliver: up to `limit` distinct documents.
RankedLists(S) ==
  UNION { {s \in [1..n -> S] : \A i, j \in 1..n : i # j => s[i] # s[j]} : n \in 0..limit }

(***************************************************************************)
(* State                                                                   *)
(***************************************************************************)
VARIABLES
  variant,          \* which revision of the program runs
  docs,             \* collection `docs`: the stored profiles
  projects,         \* collection `projects` (part_008)
  edges,            \* the stored edges of graph `docs_graph`
  bm25_ranking,     \* the view's BM25 ranking for the query (top `limit`)
  vector_ranking,   \* the collection's cosine ranking for the query (top `limit`)
  pc,               \* the statement the invocation is at
  bm25_docs, vector_docs, bm25_with_rrf, vector_with_rrf,
  initial_results, related_people,
  results,          \* cursor.all() of the current search
  has_first,        \* a search has completed before this one
  first_results,    \* the results of the first completed search
  first_initial,    \* the initial_results of the first completed search
  argv,             \* process.argv[2]
  previous,         \* argv, outcome and drop_error of the invocation before this one
  drop_error,       \* the error dropDatabase rejected with in this invocation, "none" if it resolved
  calls,            \* the backend calls this invocation has issued
  outcome,          \* "running", or how the process ended: "exit0", "exit1"
  failure,          \* what failed in this invocation, "none" if nothing
  query_dim,        \* queryVector.length, 0 before the query is embedded
  runs,             \* the number of invocations started
  provider_dim,     \* the length of the vectors the embedding provider returns
  db_exists,        \* database hybrid_search_db exists
  embeddings,       \* embeddings[i]: the length of docs[i].embedding
  has_index,        \* vector index idx_vector exists
  relationships,    \* the relationship list that setup ingests
  cpc,              \* concurrent invocations: the statement each one is at
  cnext,            \* concurrent invocations: the next profile each one saves
  observed,         \* concurrent invocations: what each one's search found
  agent_variant,    \* agentic RAG: which revision of the graph runs
  messages,         \* agentic RAG: the graph state's message list
  node,             \* agentic RAG: the node that runs next, END, or the error that ended the run
  prev_node,        \* agentic RAG: the node that ran last
  steps,            \* agentic RAG: the supersteps of the run so far
  score,            \* agentic RAG: what the grading model answered last
  gen_question,     \* agentic RAG: the question generate gave to its prompt
  gen_context,      \* agentic RAG: the context generate gave to its prompt
  chat_variant,     \* chat history: which file runs
  chatHistory,      \* chat history: the array chatHistory
  turn,             \* chat history: the number of calls of askQuestion
  asking,           \* chat history: where the current call of askQuestion is
  seen              \* chat history: the chat_history the chain was last invoked with

\* The query's bindings and its result.
query == <<bm25_docs, vector_docs, bm25_with_rrf, vector_with_rrf,
           initial_results, related_people, results>>
\* What is remembered of the first completed search.
first == <<has_first, first_results, first_initial>>
\* The state of the invocation.
inv == <<argv, previous, drop_error, calls, outcome, failure, query_dim, runs>>
\* The database besides its documents and edges, and the provider.
store == <<provider_dim, db_exists, embeddings, has_index, relationships>>
\* The concurrent invocations.
conc == <<cpc, cnext, observed>>

db == <<variant, docs, projects, edges, bm25_ranking, vector_ranking>>

\* The agentic RAG graph (src/3-agentic-rag).
rag == <<agent_variant, messages, node, prev_node, steps, score, gen_question, gen_context>>
\* The conversational chain (src/2-chat-history).
chat == <<chat_variant, chatHistory, turn, asking, seen>>

\* The hybrid search program.
hybrid == <<db, pc, query, first, inv, store, conc>>

vars == <<hybrid, rag, chat>>


(***************************************************************************)
(* AQL building blocks                                                     *)
(***************************************************************************)
RECURSIVE Down(_, _)
\* The values lo, lo-1, ..., hi (lo >= hi).
Down(lo, hi) == IF lo < hi THEN <<>> ELSE <<lo>> \o Down(lo - 1, hi)

\* The AQL range lo..hi.  A range whose upper bound is below its lower bound
\* counts down: 0..-1 is [0, -1], not the empty array.
AqlRange(lo, hi) ==
  IF lo <= hi THEN [j \in 1..(hi - lo + 1) |-> lo + j - 1] ELSE Down(lo, hi)

\* arr[i] in AQL: zero-based, a negative index counts from the end, and an
\* index outside the array gives null.
At(arr, i) ==
  IF i >= 0 THEN (IF i < Len(arr) THEN arr[i + 1] ELSE NULL)
  ELSE (IF -i <= Len(arr) THEN arr[Len(arr) + i + 1] ELSE NULL)

\* The order AQL gives to the _id values that occur: null first, then the
\* handle strings in byte order.
IdOrder ==
  << NULL, Doc("alice"), Doc("bob"), Doc("carol"), Doc("david"), Doc("emma"),
     Doc("frank"), Doc("grace"), Doc("henry"), Doc("iris"), Doc("jack"),
     Project("hybrid_search"), Project("neural_embeddings"), Project("search_api") >>

\* How the engine delivers rows whose sort keys are equal.  The queries name
\* no further key, so AQL leaves it open: the rows come out in the order they
\* went in, or in the opposite order.
TieOrders == {"kept", "reversed"}

\* SORT final_score DESC
ByFinalScore(a, b) == a.final_score > b.final_score

\* SORT person.score DESC, person.source ASC
\* ("graph_expansion" sorts before "hybrid_search").
ByScoreThenSource(a, b) ==
  \/ a.score > b.score
  \/ a.score = b.score /\ a.source = "graph_expansion" /\ b.source = "hybrid_search"

\* Row a sorts strictly before row b under the SORT clause `keys`.
Before(keys, a, b) ==
  IF keys = "final_score DESC" THEN ByFinalScore(a, b) ELSE ByScoreThenSource(a, b)

\* SORT keys: seq ordered by the clause; rows that it does not separate are
\* delivered as `tie` says.
Sorted(seq, keys, tie) ==
  LET n == Len(seq)
      Tied(i, j) == ~Before(keys, seq[i], seq[j]) /\ ~Before(keys, seq[j], seq[i])
      Ahead(j, i) == \/ Before(keys, seq[j], seq[i])
                     \/ Tied(i, j) /\ (IF tie = "kept" THEN j < i ELSE j > i)
      Pos(i) == Cardinality({j \in 1..n : j # i /\ Ahead(j, i)}) + 1
  IN [p \in 1..n |-> seq[CHOOSE i \in 1..n : Pos(i) = p]]

\* FOR v, e IN 1..1 ANY start GRAPH docs_graph: every stored edge that starts
\* or ends at `start`, with the vertex at its other end.
Traverse(start, E) ==
  LET Touches(e) == e._from = start \/ e._to = start
      es == SelectSeq(E, Touches)
  IN [j \in 1..Len(es) |->
        [v |-> IF es[j]._from = start THEN es[j]._to ELSE es[j]._from, e |-> es[j]]]

(***************************************************************************)
(* 3. Apply RRF scoring                                                    *)
(***************************************************************************)
\* The score with the loop index i used as the rank, not i + 1.
RRFZeroBased(rank) == Scale \div (k + rank - 1)

\* rrf_score: 1.0 / (k + rank)
RRF(rank) == Scale \div (k + rank)

\* bm25_with_rrf / vector_with_rrf: FOR i IN 0..LENGTH(list)-1, doc = list[i],
\* rank = i + 1.
WithRRF(list) ==
  LET idx == AqlRange(0, Len(list) - 1)
  IN [j \in 1..Len(idx) |-> [_id |-> At(list, idx[j]), rrf_score |-> RRF(idx[j] + 1)]]

RECURSIVE MaxScore(_, _)
\* The aggregate with MAX in the place of SUM.
MaxScore(rows, id) ==
  IF rows = <<>> THEN 0
  ELSE LET rest == MaxScore(Tail(rows), id)
           here == IF Head(rows)._id = id THEN Head(rows).rrf_score ELSE 0
       IN IF here > rest THEN here ELSE rest

RECURSIVE SumScore(_, _)
\* AGGREGATE final_score = SUM(doc.rrf_score) over the rows of one group.
SumScore(rows, id) ==
  IF rows = <<>> THEN 0
  ELSE (IF Head(rows)._id = id THEN Head(rows).rrf_score ELSE 0) + SumScore(Tail(rows), id)

\* COLLECT _id = doc._id, ... AGGREGATE final_score = SUM(doc.rrf_score):
\* one row per _id (the other group keys are attributes of the same
\* document), delivered in the order of the group key.
Collect(rows) ==
  LET Occurs(id) == \E i \in 1..Len(rows) : rows[i]._id = id
      ids == SelectSeq(IdOrder, Occurs)
  IN [j \in 1..Len(ids) |-> [_id |-> ids[j], final_score |-> SumScore(rows, ids[j])]]

\* FILTER _key != null (part_008 only)
KeyFilter(v, rows) ==
  LET NotNull(r) == r._id # NULL
  IN IF v = "part_008" THEN SelectSeq(rows, NotNull) ELSE rows

\* person_rels with the two direction tags exchanged.
PersonRelsSwapped(v, id, E) ==
  IF v = "part_008"
  THEN LET t == Traverse(id, E)
       IN { [type |-> t[j].e.type, connected_to |-> t[j].v,
             connected_type |-> t[j].v.coll, attr |-> t[j].e.attr,
             direction |-> IF t[j].e._from = id THEN "to" ELSE "from"] : j \in 1..Len(t) }
  ELSE {}

\* person_rels of part_008: the relationships of a direct hit.  index.ts
\* returns no such attribute.
PersonRels(v, id, E) ==
  IF v = "part_008"
  THEN LET t == Traverse(id, E)
       IN { [type |-> t[j].e.type, connected_to |-> t[j].v,
             connected_type |-> t[j].v.coll, attr |-> t[j].e.attr,
             direction |-> IF t[j].e._from = id THEN "from" ELSE "to"] : j \in 1..Len(t) }
  ELSE {}

\* 4. initial_results: UNION, COLLECT, (FILTER,) SORT, LIMIT, RETURN.
InitialResults(v, bm25rows, vectorrows, E, tie) ==
  LET collected == KeyFilter(v, Collect(bm25rows \o vectorrows))
      top == Prefix(Sorted(collected, "final_score DESC", tie), limit)
  IN [j \in 1..Len(top) |->
        [_id |-> top[j]._id, score |-> top[j].final_score, source |-> "hybrid_search",
         relationships |-> PersonRels(v, top[j]._id, E)]]


(***************************************************************************)
(* 5. Graph expansion                                                      *)
(***************************************************************************)
\* The expansion score with a digit dropped: 0.05.
ExpansionScoreTenfold == Scale \div 20

\* score: 0.005
ExpansionScore == Scale \div 200

\* The pairs (result, v, e) of FOR result IN initial_results
\*   FOR v, e, p IN 1..1 ANY result._id GRAPH docs_graph, in loop order.
Reached(initial, E) ==
  Concat([i \in 1..Len(initial) |->
            LET t == Traverse(initial[i]._id, E)
            IN [j \in 1..Len(t) |-> [result |-> initial[i], v |-> t[j].v, e |-> t[j].e]]])

\* related_people of index.ts: RETURN DISTINCT one row per pair, holding the
\* edge's type and project and the key of the hit it was reached from.
RelatedPeopleIndex(initial, E) ==
  LET r == Reached(initial, E)
  IN Distinct([j \in 1..Len(r) |->
        [_id |-> r[j].v, score |-> ExpansionScore, source |-> "graph_expansion",
         relationships |-> { [type |-> r[j].e.type, connected_to |-> r[j].result._id,
                              connected_type |-> "", attr |-> r[j].e.attr,
                              direction |-> ""] }]])

\* related_people of part_008: FILTER v._id NOT IN direct_ids,
\* COLLECT person_id = v._id INTO relationships, one row per person_id with
\* the list of its relationships.
RelatedPeoplePart008(initial, E) ==
  LET direct_ids == {initial[i]._id : i \in 1..Len(initial)}
      NotDirect(x) == x.v \notin direct_ids
      r == SelectSeq(Reached(initial, E), NotDirect)
      Occurs(id) == \E j \in 1..Len(r) : r[j].v = id
      person_ids == SelectSeq(IdOrder, Occurs)
      RelList(person_id) ==
        { [type |-> r[j].e.type, connected_to |-> r[j].result._id,
           connected_type |-> r[j].result._id.coll, attr |-> r[j].e.attr,
           direction |-> IF r[j].e._from = person_id THEN "from" ELSE "to"]
          : j \in {x \in 1..Len(r) : r[x].v = person_id} }
  IN [j \in 1..Len(person_ids) |->
        [_id |-> person_ids[j], score |-> ExpansionScore, source |-> "graph_expansion",
         relationships |-> RelList(person_ids[j])]]

RelatedPeople(v, initial, E) ==
  IF v = "index.ts" THEN RelatedPeopleIndex(initial, E) ELSE RelatedPeoplePart008(initial, E)

(***************************************************************************)
(* 6. Combine direct matches with graph-expanded results                   *)
(***************************************************************************)
\* UNION_DISTINCT(a, b): the rows of both arrays, an identical row once.
UnionDistinct(a, b) == Distinct(a \o b)

FinalResults(initial, related, tie) ==
  Sorted(UnionDistinct(initial, related), "person.score DESC, person.source ASC", tie)

\* results.filter(r => r.source === 'hybrid_search')
directMatches == SelectSeq(results, LAMBDA r : r.source = "hybrid_search")
\* results.filter(r => r.source === 'graph_expansion')
graphMatches == SelectSeq(results, LAMBDA r : r.source = "graph_expansion")

(***************************************************************************)
(* search(query), stage by stage                                           *)
(***************************************************************************)
\* Two invocations may run at the same time.
Procs == {"A", "B"}

\* No concurrent invocation is running.
ConcIdle ==
  /\ cpc = [p \in Procs |-> "idle"]
  /\ cnext = [p \in Procs |-> 1]
  /\ observed = [p \in Procs |-> "none"]

\* A message of the graph state: its type, its content, and whether it asks
\* for the retrieval tool.  A content is a text and, for retrieved documents
\* and rewritten questions, the number of the retrieval or rewrite.
Content(text, n) == [text |-> text, n |-> n]
Message(type, content, tool_call) == [type |-> type, content |-> content, tool_call |-> tool_call]

\* No graph run is under way.
RagIdle ==
  /\ agent_variant = "index.ts"
  /\ messages = <<>>
  /\ node = "idle"
  /\ prev_node = "idle"
  /\ steps = 0
  /\ score = "none"
  /\ gen_question = Content("none", 0)
  /\ gen_context = Content("none", 0)

\* No conversation is under way.
ChatIdle ==
  /\ chat_variant = "index-chains.ts"
  /\ chatHistory = <<>>
  /\ turn = 0
  /\ asking = "off"
  /\ seen = <<>>

\* No query has been evaluated and no search has completed.
QueryIdle ==
  /\ bm25_docs = <<>> /\ vector_docs = <<>>
  /\ bm25_with_rrf = <<>> /\ vector_with_rrf = <<>>
  /\ initial_results = <<>> /\ related_people = <<>>
  /\ results = <<>>
  /\ has_first = FALSE
  /\ first_results = <<>>
  /\ first_initial = <<>>

\* setupDatabase has run to its end with the provider returning vectors of
\* the configured length.
SetUp ==
  /\ docs = IngestedDocs(variant)
  /\ projects = IngestedProjects(variant)
  /\ edges = IngestedEdges(variant)
  /\ relationships = IngestedEdges(variant)
  /\ provider_dim = embeddingDimensions
  /\ embeddings = [i \in 1..Len(docs) |-> embeddingDimensions]
  /\ db_exists = TRUE
  /\ has_index = TRUE

\* main has set the database up and calls search(query).
Init ==
  /\ variant \in Variants
  /\ SetUp
  /\ bm25_ranking \in RankedLists(Range(docs))
  /\ vector_ranking \in RankedLists(Range(docs))
  /\ pc = "embed"
  /\ QueryIdle
  /\ argv = "query"
  /\ previous = <<"none", "none", "none">>
  /\ drop_error = "none"
  /\ calls = {}
  /\ outcome = "running"
  /\ failure = "none"
  /\ query_dim = 0
  /\ runs = 1
  /\ ConcIdle
  /\ RagIdle
  /\ ChatIdle

\* getEmbedding is called and not awaited: the search goes on before the
\* query vector is there.
EmbedNotAwaited ==
  /\ pc = "embed"
  /\ calls' = calls \cup {"embeddings"}
  /\ pc' = "retrieve"
  /\ UNCHANGED <<db, query, first, argv, previous, drop_error, outcome, failure, query_dim, runs, store, conc, rag, chat>>

\* const queryVector = await getEmbedding(query)
Embed ==
  /\ pc = "embed"
  /\ calls' = calls \cup {"embeddings"}
  /\ query_dim' = provider_dim
  /\ pc' = "retrieve"
  /\ UNCHANGED <<db, query, first, argv, previous, drop_error, outcome, failure, runs, store, conc, rag, chat>>

\* getEmbedding fails and the search goes on without a query vector.
EmbedFallback ==
  /\ pc = "embed"
  /\ calls' = calls \cup {"embeddings"}
  /\ failure' = "embedding"
  /\ pc' = "retrieve"
  /\ UNCHANGED <<db, query, first, argv, previous, drop_error, outcome, query_dim, runs, store, conc, rag, chat>>

\* getEmbedding fails: the error is printed and process.exit(1) ends the run.
EmbedFail ==
  /\ pc = "embed"
  /\ calls' = calls \cup {"embeddings"}
  /\ failure' = "embedding"
  /\ outcome' = "exit1"
  /\ pc' = "exit"
  /\ UNCHANGED <<db, query, first, argv, previous, drop_error, query_dim, runs, store, conc, rag, chat>>

\* The documents of a ranking that are stored.
Stored(ranking) == SelectSeq(ranking, LAMBDA d : d \in Range(docs))

\* db.query(aqlQuery) is issued; 1. BM25 keyword search and 2. vector
\* similarity search.
Retrieve ==
  /\ pc = "retrieve"
  /\ calls' = calls \cup {"query"}
  /\ bm25_docs' = Stored(bm25_ranking)
  /\ vector_docs' = Stored(vector_ranking)
  /\ pc' = "fuse"
  /\ UNCHANGED <<db, bm25_with_rrf, vector_with_rrf, initial_results, related_people,
                 results, first, argv, previous, drop_error, outcome, failure, query_dim, runs, store, conc, rag, chat>>

\* 3. RRF scoring and 4. the fused top `limit`.
Fuse ==
  /\ pc = "fuse"
  /\ bm25_with_rrf' = WithRRF(bm25_docs)
  /\ vector_with_rrf' = WithRRF(vector_docs)
  /\ \E tie \in TieOrders :
       initial_results' =
         InitialResults(variant, WithRRF(bm25_docs), WithRRF(vector_docs), edges, tie)
  /\ pc' = "expand"
  /\ UNCHANGED <<db, bm25_docs, vector_docs, related_people, results,
                 first, inv, store, conc, rag, chat>>

\* 5. Graph expansion.
Expand ==
  /\ pc = "expand"
  /\ related_people' = RelatedPeople(variant, initial_results, edges)
  /\ pc' = "assemble"
  /\ UNCHANGED <<db, bm25_docs, vector_docs, bm25_with_rrf, vector_with_rrf,
                 initial_results, results, first, inv, store, conc, rag, chat>>

\* 6. The final FOR ... SORT ... RETURN; const results = await cursor.all();
\* the results are displayed, search and main return and the process ends.
Assemble ==
  /\ pc = "assemble"
  /\ \E tie \in TieOrders :
       results' = FinalResults(initial_results, related_people, tie)
  /\ outcome' = "exit0"
  /\ pc' = "done"
  /\ UNCHANGED <<db, bm25_docs, vector_docs, bm25_with_rrf, vector_with_rrf,
                 initial_results, related_people, first,
                 argv, previous, drop_error, calls, failure, query_dim, runs, store, conc, rag, chat>>

\* db.query rejects and the error is swallowed: the search ends like one
\* that found nothing.
QueryFailSwallowed ==
  /\ pc \in {"retrieve", "fuse", "expand", "assemble"}
  /\ calls' = calls \cup {"query"}
  /\ failure' = "backend"
  /\ outcome' = "exit0"
  /\ pc' = "done"
  /\ UNCHANGED <<db, query, first, argv, previous, drop_error, query_dim, runs, store, conc, rag, chat>>

\* db.query or cursor.all rejects: the error leaves search and main, and
\* main().catch prints it and calls process.exit(1).
QueryFail ==
  /\ pc \in {"retrieve", "fuse", "expand", "assemble"}
  /\ calls' = calls \cup {"query"}
  /\ failure' = "backend"
  /\ outcome' = "exit1"
  /\ pc' = "exit"
  /\ UNCHANGED <<db, query, first, argv, previous, drop_error, query_dim, runs, store, conc, rag, chat>>

\* What a new search starts from.
Restart ==
  /\ pc' = "embed"
  /\ bm25_docs' = <<>> /\ vector_docs' = <<>>
  /\ bm25_with_rrf' = <<>> /\ vector_with_rrf' = <<>>
  /\ initial_results' = <<>> /\ related_people' = <<>>
  /\ results' = <<>>
  /\ calls' = {}
  /\ outcome' = "running"
  /\ query_dim' = 0
  /\ UNCHANGED <<argv, previous, drop_error, failure, runs, store, conc, rag, chat>>

\* The command is run again with the same query on the same data: the next
\* search starts while the first completed search's results are remembered.
SearchAgain ==
  /\ pc = "done"
  /\ first_results' = IF has_first THEN first_results ELSE results
  /\ first_initial' = IF has_first THEN first_initial ELSE initial_results
  /\ has_first' = TRUE
  /\ Restart
  /\ UNCHANGED db

\* The command is run again on the same data with the two rankings
\* exchanged: what the view ranked is now what the vectors rank.
SearchSwapped ==
  /\ pc = "done"
  /\ ~has_first
  /\ first_results' = results
  /\ first_initial' = initial_results
  /\ has_first' = TRUE
  /\ bm25_ranking' = vector_ranking
  /\ vector_ranking' = bm25_ranking
  /\ Restart
  /\ UNCHANGED <<variant, docs, projects, edges>>

\* One search.
Next ==
  \/ Embed
  \/ EmbedFail
  \/ Retrieve
  \/ Fuse
  \/ Expand
  \/ Assemble
  \/ QueryFail

Spec == Init /\ [][Next]_vars

\* Searches repeated on unchanged data.
NextAgain ==
  \/ Next
  \/ SearchAgain

SpecAgain == Init /\ [][NextAgain]_vars

\* A search and the search with its rankings exchanged.
NextSwapped ==
  \/ Next
  \/ SearchSwapped

SpecSwapped == Init /\ [][NextSwapped]_vars

(***************************************************************************)
(* main, resetDatabase, setupDatabase                                      *)
(***************************************************************************)
\* Number of invocations of the program that are followed.
MaxRuns == 3

\* process.argv[2]: absent, the empty string, the word reset, a query text.
Args == {"undefined", "", "reset", "query"}

\* The test with an absent argument only.
NoQueryUndefinedOnly(arg) == arg = "undefined"

\* if (!query)
NoQuery(arg) == arg \in {"undefined", ""}

\* if (command === 'reset' || command === '--reset'), index.ts only.
IsResetCommand(v, arg) == v = "index.ts" /\ arg = "reset"

\* config.arango.edgeCollections of part_008: the registered relationship types.
edgeCollections == {"reports_to", "collaborates_with", "works_with", "advises", "works_on"}

\* No relationship type is taken as unknown.
UnknownTypeNever(v, e) == FALSE

\* if (!edgeCol) with edgeCol = edgeCollections[edge.type]: part_008 keeps one
\* edge collection per registered type; index.ts saves every edge into
\* related_to.
UnknownType(v, e) == v = "part_008" /\ e.type \notin edgeCollections

\* A relationship list with an edge of a type that has no collection.
WithUnknownType(v, rels) ==
  LET bad == Rel(IngestedDocs(v)[1], IngestedDocs(v)[2], "manages", "")
  IN <<Head(rels), bad>> \o Tail(rels)

RECURSIVE SavedEdges(_, _)
\* for (const edge of SAMPLE_RELATIONSHIPS): the edges saved before the loop
\* ends or throws.
SavedEdges(v, rels) ==
  IF rels = <<>> \/ UnknownType(v, Head(rels)) THEN <<>>
  ELSE <<Head(rels)>> \o SavedEdges(v, Tail(rels))

\* The loop throws `Unknown relationship type`.
EdgeLoopThrows(v, rels) == \E i \in 1..Len(rels) : UnknownType(v, rels[i])

\* dropDatabase: the database with all it holds is gone.
Dropped ==
  /\ db_exists' = FALSE
  /\ docs' = <<>> /\ embeddings' = <<>>
  /\ projects' = <<>>
  /\ edges' = <<>>
  /\ has_index' = FALSE

\* The program is started on an empty server.
InitMain ==
  /\ variant \in Variants
  /\ docs = <<>> /\ embeddings = <<>> /\ projects = <<>> /\ edges = <<>>
  /\ db_exists = FALSE
  /\ has_index = FALSE
  /\ relationships \in {IngestedEdges(variant), WithUnknownType(variant, IngestedEdges(variant))}
  /\ provider_dim \in Dims
  /\ bm25_ranking \in {<<>>, Prefix(IngestedDocs(variant), limit)}
  /\ vector_ranking \in {<<>>, Prefix(IngestedDocs(variant), limit)}
  /\ pc = "main"
  /\ QueryIdle
  /\ argv \in Args
  /\ previous = <<"none", "none", "none">>
  /\ drop_error = "none"
  /\ calls = {}
  /\ outcome = "running"
  /\ failure = "none"
  /\ query_dim = 0
  /\ runs = 1
  /\ ConcIdle
  /\ RagIdle
  /\ ChatIdle

\* main: no query is given; the usage text is printed and main returns.
Usage ==
  /\ pc = "main"
  /\ ~IsResetCommand(variant, argv)
  /\ NoQuery(argv)
  /\ outcome' = "exit0"
  /\ pc' = "returned"
  /\ UNCHANGED <<db, query, first, argv, previous, drop_error, calls, failure, query_dim, runs, store, conc, rag, chat>>

\* The errors dropDatabase can reject with: ArangoError 1228 (database not
\* found), another ArangoError, an error that is no ArangoError (the server
\* is not reachable).
DropErrors == {"1228", "arango", "network"}

\* The catch of resetDatabase: which errors it throws again.
\*   index.ts:  if (e.isArangoError && e.errorNum === 1228) {...} else throw e
\*   part_008:  if (e.isArangoError && e.errorNum !== 1228) throw e
Rethrown(v, err) ==
  IF v = "index.ts" THEN err # "1228" ELSE err = "arango"

\* main of index.ts with the reset command: resetDatabase drops the database
\* or finds none (error 1228, "already clean"), then main returns.
ResetCommand ==
  /\ pc = "main"
  /\ IsResetCommand(variant, argv)
  /\ calls' = calls \cup {"dropDatabase"}
  /\ drop_error' = IF db_exists THEN "none" ELSE "1228"
  /\ Dropped
  /\ outcome' = "exit0"
  /\ pc' = "returned"
  /\ UNCHANGED <<variant, bm25_ranking, vector_ranking, query, first,
                 argv, previous, failure, query_dim, runs, provider_dim, relationships, conc, rag, chat>>

\* dropDatabase rejects with another error and resetDatabase throws it again:
\* main().catch prints it and calls process.exit(1).
ResetFail ==
  /\ pc = "main"
  /\ IsResetCommand(variant, argv) \/ (variant = "part_008" /\ ~NoQuery(argv))
  /\ \E err \in DropErrors \ {"1228"} :
       /\ Rethrown(variant, err)
       /\ drop_error' = err
  /\ calls' = calls \cup {"dropDatabase"}
  /\ failure' = "reset"
  /\ outcome' = "exit1"
  /\ pc' = "exit"
  /\ UNCHANGED <<db, query, first, argv, previous, query_dim, runs, store, conc, rag, chat>>

\* dropDatabase rejects with another error and the catch of resetDatabase
\* lets it pass: main goes on to setupDatabase, nothing was dropped.
ResetFailIgnored ==
  /\ pc = "main"
  /\ variant = "part_008" /\ ~NoQuery(argv)
  /\ \E err \in DropErrors \ {"1228"} :
       /\ ~Rethrown(variant, err)
       /\ drop_error' = err
  /\ calls' = calls \cup {"dropDatabase"}
  /\ pc' = "create"
  /\ UNCHANGED <<db, query, first, argv, previous, outcome, failure, query_dim, runs, store, conc, rag, chat>>

\* main goes on to search(query) without setupDatabase.
CheckSetupSkipped ==
  /\ pc = "main"
  /\ variant = "index.ts"
  /\ ~IsResetCommand(variant, argv)
  /\ ~NoQuery(argv)
  /\ calls' = calls \cup {"count"}
  /\ pc' = "embed"
  /\ UNCHANGED <<db, query, first, argv, previous, drop_error, outcome, failure, query_dim, runs, store, conc, rag, chat>>

\* main of index.ts with a query: isDatabaseSetup, then setupDatabase or search.
CheckSetup ==
  /\ pc = "main"
  /\ variant = "index.ts"
  /\ ~IsResetCommand(variant, argv)
  /\ ~NoQuery(argv)
  /\ calls' = calls \cup {"count"}
  /\ pc' = IF db_exists /\ Len(docs) > 0 THEN "embed" ELSE "create"
  /\ UNCHANGED <<db, query, first, argv, previous, drop_error, outcome, failure, query_dim, runs, store, conc, rag, chat>>

\* isDatabaseSetup of index.ts when count() rejects: the catch returns false
\* and main calls setupDatabase.
CheckSetupFail ==
  /\ pc = "main"
  /\ variant = "index.ts"
  /\ ~IsResetCommand(variant, argv)
  /\ ~NoQuery(argv)
  /\ calls' = calls \cup {"count"}
  /\ pc' = "create"
  /\ UNCHANGED <<db, query, first, argv, previous, drop_error, outcome, failure, query_dim, runs, store, conc, rag, chat>>

\* main of part_008 with a query: resetDatabase, then setupDatabase.
ResetAlways ==
  /\ pc = "main"
  /\ variant = "part_008"
  /\ ~NoQuery(argv)
  /\ calls' = calls \cup {"dropDatabase"}
  /\ drop_error' = IF db_exists THEN "none" ELSE "1228"
  /\ Dropped
  /\ pc' = "create"
  /\ UNCHANGED <<variant, bm25_ranking, vector_ranking, query, first,
                 argv, previous, outcome, failure, query_dim, runs, provider_dim, relationships, conc, rag, chat>>

\* setupDatabase 1.-5.: database, collections (truncated when they exist),
\* graph and view.
CreateStructures ==
  /\ pc = "create"
  /\ calls' = calls \cup {"create"} \cup (IF db_exists THEN {"truncate"} ELSE {})
  /\ db_exists' = TRUE
  /\ docs' = <<>> /\ embeddings' = <<>>
  /\ projects' = <<>>
  /\ edges' = <<>>
  /\ pc' = "ingest_docs"
  /\ UNCHANGED <<variant, bm25_ranking, vector_ranking, query, first, argv, previous, drop_error, outcome,
                 failure, query_dim, runs, provider_dim, has_index, relationships, conc, rag, chat>>

\* setupDatabase 1.-4. on a database whose graph exists: the collections are
\* truncated, then createGraph rejects. The catch passes only errorNum 1207
\* (duplicate name); ArangoDB answers an existing graph with 1925 (graph
\* already exists), which is thrown again, and main().catch ends the run.
CreateGraphExists ==
  /\ pc = "create"
  /\ db_exists
  /\ calls' = calls \cup {"create", "truncate"}
  /\ docs' = <<>> /\ embeddings' = <<>>
  /\ projects' = <<>>
  /\ edges' = <<>>
  /\ failure' = "graph"
  /\ outcome' = "exit1"
  /\ pc' = "exit"
  /\ UNCHANGED <<variant, bm25_ranking, vector_ranking, query, first, argv, previous,
                 drop_error, query_dim, runs, provider_dim, db_exists, has_index,
                 relationships, conc, rag, chat>>

\* setupDatabase 6.: one turn of for (const doc of SAMPLE_DOCS): the text is
\* embedded and the document saved with the vector the provider returned.
IngestDoc ==
  /\ pc = "ingest_docs"
  /\ Len(docs) < Len(IngestedDocs(variant))
  /\ calls' = calls \cup {"embeddings", "save"}
  /\ docs' = Append(docs, IngestedDocs(variant)[Len(docs) + 1])
  /\ embeddings' = Append(embeddings, provider_dim)
  /\ UNCHANGED <<variant, projects, edges, bm25_ranking, vector_ranking, pc, query, first,
                 argv, previous, drop_error, outcome, failure, query_dim, runs,
                 provider_dim, db_exists, has_index, relationships, conc, rag, chat>>

\* getEmbedding fails during ingestion: process.exit(1).
IngestEmbedFail ==
  /\ pc = "ingest_docs"
  /\ Len(docs) < Len(IngestedDocs(variant))
  /\ calls' = calls \cup {"embeddings"}
  /\ failure' = "embedding"
  /\ outcome' = "exit1"
  /\ pc' = "exit"
  /\ UNCHANGED <<db, query, first, argv, previous, drop_error, query_dim, runs, store, conc, rag, chat>>

\* setupDatabase 6b.: the projects are saved (part_008; index.ts has none).
IngestProjects ==
  /\ pc = "ingest_docs"
  /\ Len(docs) = Len(IngestedDocs(variant))
  /\ calls' = calls \cup {"save"}
  /\ projects' = IngestedProjects(variant)
  /\ pc' = "ingest_edges"
  /\ UNCHANGED <<variant, docs, edges, bm25_ranking, vector_ranking, query, first,
                 argv, previous, drop_error, outcome, failure, query_dim, runs, store, conc, rag, chat>>

\* setupDatabase 7.: the relationships are saved; part_008 throws at the
\* first edge whose type has no collection, and main().catch ends the run.
IngestEdges ==
  /\ pc = "ingest_edges"
  /\ calls' = calls \cup {"save"}
  /\ edges' = SavedEdges(variant, relationships)
  /\ IF EdgeLoopThrows(variant, relationships)
     THEN failure' = "relationship" /\ outcome' = "exit1" /\ pc' = "exit"
     ELSE failure' = failure /\ outcome' = outcome /\ pc' = "index"
  /\ UNCHANGED <<variant, docs, projects, bm25_ranking, vector_ranking, query, first,
                 argv, previous, drop_error, query_dim, runs, store, conc, rag, chat>>

\* setupDatabase 8.: ensureIndex creates the vector index; main goes on to
\* search(query).
EnsureIndex ==
  /\ pc = "index"
  /\ calls' = calls \cup {"ensureIndex"}
  /\ has_index' = TRUE
  /\ pc' = "embed"
  /\ UNCHANGED <<db, query, first, argv, previous, drop_error, outcome, failure, query_dim, runs,
                 provider_dim, db_exists, embeddings, relationships, conc, rag, chat>>

\* A call of resetDatabase or setupDatabase rejects with an error that is
\* rethrown: main().catch prints it and calls process.exit(1).
SetupFail ==
  /\ pc \in {"create", "ingest_docs", "ingest_edges", "index"}
  /\ failure' = "backend"
  /\ outcome' = "exit1"
  /\ pc' = "exit"
  /\ UNCHANGED <<db, query, first, argv, previous, drop_error, calls, query_dim, runs, store, conc, rag, chat>>

\* The program is started again; the server keeps what it holds, and the
\* provider answers with vectors of one of its lengths.
Invoke ==
  /\ pc \in {"done", "exit", "returned"}
  /\ runs < MaxRuns
  /\ runs' = runs + 1
  /\ argv' \in Args
  /\ previous' = <<argv, outcome, drop_error>>
  /\ drop_error' = "none"
  /\ pc' = "main"
  /\ bm25_docs' = <<>> /\ vector_docs' = <<>>
  /\ bm25_with_rrf' = <<>> /\ vector_with_rrf' = <<>>
  /\ initial_results' = <<>> /\ related_people' = <<>>
  /\ results' = <<>>
  /\ calls' = {}
  /\ outcome' = "running"
  /\ failure' = "none"
  /\ query_dim' = 0
  /\ provider_dim' \in Dims
  /\ UNCHANGED <<db, first, db_exists, embeddings, has_index, relationships, conc, rag, chat>>

\* Invocations of the program, one after the other.
NextMain ==
  \/ Usage
  \/ ResetCommand
  \/ CheckSetup
  \/ CheckSetupFail
  \/ ResetAlways
  \/ ResetFail
  \/ ResetFailIgnored
  \/ CreateStructures
  \/ CreateGraphExists
  \/ IngestDoc
  \/ IngestEmbedFail
  \/ IngestProjects
  \/ IngestEdges
  \/ EnsureIndex
  \/ SetupFail
  \/ Embed
  \/ EmbedFail
  \/ Retrieve
  \/ Fuse
  \/ Expand
  \/ Assemble
  \/ QueryFail
  \/ Invoke

SpecMain == InitMain /\ [][NextMain]_vars

(***************************************************************************)
(* Two invocations of main at the same time, on one server                 *)
(***************************************************************************)
\* Every sample profile, project and edge is stored and the index exists.
Complete ==
  /\ db_exists
  /\ Range(IngestedDocs(variant)) \subseteq Range(docs)
  /\ Range(IngestedProjects(variant)) \subseteq Range(projects)
  /\ Range(IngestedEdges(variant)) \subseteq Range(edges)
  /\ has_index

\* What a search query finds on the server.
Found ==
  IF ~db_exists THEN "missing"
  ELSE IF docs = <<>> THEN "empty"
  ELSE IF Complete THEN "complete"
  ELSE "partial"

\* Both invocations are started with a query, on an empty server or on one
\* that an earlier invocation has set up.
InitConc ==
  /\ variant \in Variants
  /\ provider_dim = embeddingDimensions
  /\ relationships = IngestedEdges(variant)
  /\ \/ SetUp
     \/ /\ docs = <<>> /\ embeddings = <<>> /\ projects = <<>> /\ edges = <<>>
        /\ db_exists = FALSE /\ has_index = FALSE
  /\ bm25_ranking = <<>>
  /\ vector_ranking = <<>>
  /\ pc = "idle"
  /\ QueryIdle
  /\ argv = "query"
  /\ previous = <<"none", "none", "none">>
  /\ drop_error = "none"
  /\ calls = {}
  /\ outcome = "running"
  /\ failure = "none"
  /\ query_dim = 0
  /\ runs = 1
  /\ cpc = [p \in Procs |-> "main"]
  /\ cnext = [p \in Procs |-> 1]
  /\ observed = [p \in Procs |-> "none"]
  /\ RagIdle
  /\ ChatIdle

\* What the steps of a concurrent invocation leave alone.
ConcFrame == UNCHANGED <<rag, chat, variant, bm25_ranking, vector_ranking, pc, query, first, inv,
                         provider_dim, relationships>>

\* main of index.ts: isDatabaseSetup, then setupDatabase or search.
CCheckSetup(p) ==
  /\ cpc[p] = "main"
  /\ variant = "index.ts"
  /\ cpc' = [cpc EXCEPT ![p] = IF db_exists /\ Len(docs) > 0 THEN "search" ELSE "create"]
  /\ UNCHANGED <<docs, projects, edges, db_exists, embeddings, has_index, cnext, observed>>
  /\ ConcFrame

\* main of part_008: resetDatabase drops the database.
CResetAlways(p) ==
  /\ cpc[p] = "main"
  /\ variant = "part_008"
  /\ Dropped
  /\ cpc' = [cpc EXCEPT ![p] = "create"]
  /\ UNCHANGED <<cnext, observed>>
  /\ ConcFrame

\* setupDatabase 1.-5.: what exists is kept (error 1207) and the collections
\* are truncated.
CCreateStructures(p) ==
  /\ cpc[p] = "create"
  /\ db_exists' = TRUE
  /\ docs' = <<>> /\ embeddings' = <<>>
  /\ projects' = <<>>
  /\ edges' = <<>>
  /\ cpc' = [cpc EXCEPT ![p] = "ingest_docs"]
  /\ UNCHANGED <<has_index, cnext, observed>>
  /\ ConcFrame

\* setupDatabase 6.: one profile is saved; save rejects when the database is
\* gone or the key is already stored, and main().catch ends the invocation.
CIngestDoc(p) ==
  /\ cpc[p] = "ingest_docs"
  /\ cnext[p] <= Len(IngestedDocs(variant))
  /\ LET doc == IngestedDocs(variant)[cnext[p]] IN
       IF db_exists /\ doc \notin Range(docs)
       THEN /\ docs' = Append(docs, doc)
            /\ embeddings' = Append(embeddings, provider_dim)
            /\ cnext' = [cnext EXCEPT ![p] = cnext[p] + 1]
            /\ cpc' = cpc
       ELSE /\ cpc' = [cpc EXCEPT ![p] = "exit"]
            /\ UNCHANGED <<docs, embeddings, cnext>>
  /\ UNCHANGED <<projects, edges, db_exists, has_index, observed>>
  /\ ConcFrame

\* setupDatabase 6b. and 7.: projects and edges are saved (edges get fresh
\* keys; a project key already stored is rejected).
CIngestRest(p) ==
  /\ cpc[p] = "ingest_docs"
  /\ cnext[p] > Len(IngestedDocs(variant))
  /\ IF db_exists /\ (projects = <<>> \/ IngestedProjects(variant) = <<>>)
     THEN /\ projects' = IngestedProjects(variant)
          /\ edges' = edges \o IngestedEdges(variant)
          /\ cpc' = [cpc EXCEPT ![p] = "index"]
     ELSE /\ cpc' = [cpc EXCEPT ![p] = "exit"]
          /\ UNCHANGED <<projects, edges>>
  /\ UNCHANGED <<docs, embeddings, db_exists, has_index, cnext, observed>>
  /\ ConcFrame

\* setupDatabase 8.: ensureIndex.
CEnsureIndex(p) ==
  /\ cpc[p] = "index"
  /\ IF db_exists
     THEN has_index' = TRUE /\ cpc' = [cpc EXCEPT ![p] = "search"]
     ELSE has_index' = has_index /\ cpc' = [cpc EXCEPT ![p] = "exit"]
  /\ UNCHANGED <<docs, projects, edges, db_exists, embeddings, cnext, observed>>
  /\ ConcFrame

\* search(query): the query runs on what the server holds at that moment.
CSearch(p) ==
  /\ cpc[p] = "search"
  /\ observed' = [observed EXCEPT ![p] = Found]
  /\ cpc' = [cpc EXCEPT ![p] = IF db_exists THEN "done" ELSE "exit"]
  /\ UNCHANGED <<docs, projects, edges, db_exists, embeddings, has_index, cnext>>
  /\ ConcFrame

NextConc ==
  \E p \in Procs :
    \/ CCheckSetup(p)
    \/ CResetAlways(p)
    \/ CCreateStructures(p)
    \/ CIngestDoc(p)
    \/ CIngestRest(p)
    \/ CEnsureIndex(p)
    \/ CSearch(p)

SpecConc == InitConc /\ [][NextConc]_vars

(***************************************************************************)
(* The agentic RAG graph: src/3-agentic-rag/index.ts and src/unnamed/part_003 *)
(***************************************************************************)
\* The hybrid search program is not running.
HybridIdle ==
  /\ variant = "index.ts"
  /\ docs = <<>> /\ projects = <<>> /\ edges = <<>>
  /\ bm25_ranking = <<>> /\ vector_ranking = <<>>
  /\ pc = "idle"
  /\ QueryIdle
  /\ argv = "undefined"
  /\ previous = <<"none", "none", "none">>
  /\ drop_error = "none"
  /\ calls = {}
  /\ outcome = "running"
  /\ failure = "none"
  /\ query_dim = 0
  /\ runs = 1
  /\ provider_dim = embeddingDimensions
  /\ db_exists = FALSE
  /\ embeddings = <<>>
  /\ has_index = FALSE
  /\ relationships = <<>>
  /\ ConcIdle

\* The supersteps after which the graph library ends a run that has not
\* reached END (GraphRecursionError).
MaxSteps == 25

AgentVariants == {"index.ts", "part_003"}

\* The questions the graph is invoked with.
Questions == {Content("What is Task Decomposition?", 0), Content("Hello! How are you?", 0)}

\* What the grading model answers.
GraderAnswers == {"yes", "no", "Yes", "unsure"}

\* isRelevant of gradeDocuments:
\*   index.ts:  score.content.toString().toLowerCase().trim().includes("yes")
\*   part_003:  score.binaryScore === "yes"
IsRelevant(v, answer) ==
  IF v = "index.ts" THEN answer \in {"yes", "Yes"} ELSE answer = "yes"

Last(msgs) == msgs[Len(msgs)]

\* The tool messages of the list.
ToolMessages(msgs) == SelectSeq(msgs, LAMBDA m : m.type = "tool")

\* shouldRetrieve: "retrieve" when the last message asks for the tool.
shouldRetrieve(msgs) == IF Last(msgs).tool_call THEN "retrieve" ELSE "END"

\* The route after grading is always generate.
checkRelevanceAlwaysGenerate(msgs) == "generate"

\* checkRelevance: lastMessage.content === "generate" ? "generate" : "rewrite"
checkRelevance(msgs) ==
  IF Last(msgs).content = Content("generate", 0) THEN "generate" ELSE "rewrite"

\* The context generate passes to its prompt:
\*   index.ts:  the content of the last message of type "tool", "" if none
\*   part_003:  messages[messages.length - 1].content
GenerateContext(v, msgs) ==
  IF v = "index.ts"
  THEN IF ToolMessages(msgs) = <<>> THEN Content("", 0) ELSE Last(ToolMessages(msgs)).content
  ELSE Last(msgs).content

\* graph.invoke({ messages: [new HumanMessage(question)] })
InitAgent ==
  /\ HybridIdle
  /\ ChatIdle
  /\ agent_variant \in AgentVariants
  /\ \E q \in Questions : messages = <<Message("human", q, FALSE)>>
  /\ node = "generateQueryOrRespond"
  /\ prev_node = "START"
  /\ steps = 0
  /\ score = "none"
  /\ gen_question = Content("none", 0)
  /\ gen_context = Content("none", 0)

\* Node generateQueryOrRespond: the model asks for the retrieval tool or
\* answers; then the conditional edge shouldRetrieve.
generateQueryOrRespond ==
  /\ node = "generateQueryOrRespond"
  /\ steps < MaxSteps
  /\ \E response \in {Message("ai", Content("", 0), TRUE),
                      Message("ai", Content("response", 0), FALSE)} :
       /\ messages' = Append(messages, response)
       /\ node' = shouldRetrieve(Append(messages, response))
  /\ prev_node' = node
  /\ steps' = steps + 1
  /\ UNCHANGED <<hybrid, chat, agent_variant, score, gen_question, gen_context>>

\* Node retrieve: the retriever's documents are appended as a tool message.
retrieve ==
  /\ node = "retrieve"
  /\ steps < MaxSteps
  /\ messages' = Append(messages,
                   Message("tool", Content("docs", Len(ToolMessages(messages)) + 1), FALSE))
  /\ node' = "gradeDocuments"
  /\ prev_node' = node
  /\ steps' = steps + 1
  /\ UNCHANGED <<hybrid, chat, agent_variant, score, gen_question, gen_context>>

\* Node gradeDocuments: the model grades the last message against the first
\* and the node appends AIMessage "generate" or "rewrite"; then the
\* conditional edge checkRelevance.
gradeDocuments ==
  /\ node = "gradeDocuments"
  /\ steps < MaxSteps
  /\ \E answer \in GraderAnswers :
       LET grade == Message("ai",
                      Content(IF IsRelevant(agent_variant, answer) THEN "generate" ELSE "rewrite", 0),
                      FALSE)
       IN /\ score' = answer
          /\ messages' = Append(messages, grade)
          /\ node' = checkRelevance(Append(messages, grade))
  /\ prev_node' = node
  /\ steps' = steps + 1
  /\ UNCHANGED <<hybrid, chat, agent_variant, gen_question, gen_context>>

\* Node rewrite: the model reformulates messages[0]; index.ts appends it as
\* a HumanMessage, part_003 appends the model's response.
rewrite ==
  /\ node = "rewrite"
  /\ steps < MaxSteps
  /\ LET n == Len(SelectSeq(messages, LAMBDA m : m.content.text = "rewritten")) + 1
     IN messages' = Append(messages,
          Message(IF agent_variant = "index.ts" THEN "human" ELSE "ai",
                  Content("rewritten", n), FALSE))
  /\ node' = "generateQueryOrRespond"
  /\ prev_node' = node
  /\ steps' = steps + 1
  /\ UNCHANGED <<hybrid, chat, agent_variant, score, gen_question, gen_context>>

\* Node generate: question and context go into the answer prompt and the
\* model's answer is appended; the edge leads to END.
generate ==
  /\ node = "generate"
  /\ steps < MaxSteps
  /\ gen_question' = messages[1].content
  /\ gen_context' = GenerateContext(agent_variant, messages)
  /\ messages' = Append(messages, Message("ai", Content("answer", 0), FALSE))
  /\ node' = "END"
  /\ prev_node' = node
  /\ steps' = steps + 1
  /\ UNCHANGED <<hybrid, chat, agent_variant, score>>

\* The run has taken MaxSteps supersteps without reaching END: the library
\* rejects graph.invoke with GraphRecursionError.
RecursionLimit ==
  /\ node \notin {"END", "GraphRecursionError"}
  /\ steps = MaxSteps
  /\ node' = "GraphRecursionError"
  /\ UNCHANGED <<hybrid, chat, agent_variant, messages, prev_node, steps, score,
                 gen_question, gen_context>>

NextAgent ==
  \/ generateQueryOrRespond
  \/ retrieve
  \/ gradeDocuments
  \/ rewrite
  \/ generate
  \/ RecursionLimit

SpecAgent == InitAgent /\ [][NextAgent]_vars

\* Every node that can run does run.
SpecAgentFair == SpecAgent /\ WF_vars(NextAgent)

(***************************************************************************)
(* The conversational chain: src/2-chat-history/index-chains.ts, index.ts  *)
(***************************************************************************)
ChatVariants == {"index-chains.ts", "index.ts"}

\* The questions of the session, in the order of the calls of askQuestion.
SessionQuestions ==
  <<"What is Task Decomposition?", "What are common ways of doing it?",
    "Can you give me specific examples?">>

\* result.answer: what the chain may answer.
Answers == {"answer a", "answer b", "answer c"}

HumanMessage(text) == [type |-> "human", content |-> text]
AIMessage(text) == [type |-> "ai", content |-> text]

\* The session starts with an empty chatHistory.
InitChat ==
  /\ HybridIdle
  /\ RagIdle
  /\ chat_variant \in ChatVariants
  /\ chatHistory = <<>>
  /\ turn = 0
  /\ asking = "ready"
  /\ seen = <<>>

\* askQuestion(question): ragChain.invoke({ input, chat_history: chatHistory }).
AskQuestion ==
  /\ asking = "ready"
  /\ turn < Len(SessionQuestions)
  /\ turn' = turn + 1
  /\ seen' = chatHistory
  /\ asking' = "invoking"
  /\ UNCHANGED <<hybrid, rag, chat_variant, chatHistory>>

\* The chain resolves: the question and the answer are pushed.
ChainAnswers ==
  /\ asking = "invoking"
  /\ \E answer \in Answers :
       chatHistory' = chatHistory \o <<HumanMessage(SessionQuestions[turn]), AIMessage(answer)>>
  /\ asking' = IF turn = Len(SessionQuestions) THEN "finished" ELSE "ready"
  /\ UNCHANGED <<hybrid, rag, chat_variant, turn, seen>>

\* The chain rejects after the question has been pushed.
ChainFailsAfterPush ==
  /\ asking = "invoking"
  /\ chatHistory' = Append(chatHistory, HumanMessage(SessionQuestions[turn]))
  /\ asking' = "failed"
  /\ UNCHANGED <<hybrid, rag, chat_variant, turn, seen>>

\* The chain rejects: the await throws before the pushes, and the rejection
\* of the top-level await ends the session.
ChainFails ==
  /\ asking = "invoking"
  /\ asking' = "failed"
  /\ UNCHANGED <<hybrid, rag, chat_variant, chatHistory, turn, seen>>

NextChat ==
  \/ AskQuestion
  \/ ChainAnswers
  \/ ChainFails

SpecChat == InitChat /\ [][NextChat]_vars

(***************************************************************************)
(* Properties of the fused ranking                                         *)
(***************************************************************************)
\* The fused direct hits have been computed.
Fused == pc \in {"expand", "assemble", "done"}

\* The 1-based position of e in list, 0 when it is absent.
RankIn(list, e) ==
  IF e \in Range(list) THEN CHOOSE i \in 1..Len(list) : list[i] = e ELSE 0

\* 1/(k + rank of e in list), nothing when list does not contain e.
Contribution(list, e) ==
  IF e \in Range(list) THEN Scale \div (k + RankIn(list, e)) ELSE 0

\* The reciprocal-rank sum of e over the two strategy lists.
RankSum(e) == Contribution(bm25_docs, e) + Contribution(vector_docs, e)

\* The direct hits as (id, score) pairs.
DirectHits ==
  [i \in 1..Len(initial_results) |->
     <<initial_results[i]._id, initial_results[i].score>>]

DirectIds == {initial_results[i]._id : i \in 1..Len(initial_results)}

\* C1: for lexical and vector lists of length 0..limit without repeats, the
\* fusion score of every entry of the fused result is the sum, over the
\* lists that contain it, of 1/(k + its 1-based rank there), k = 60; a list
\* that does not contain it contributes nothing.
C1_ScoreIsRankSum ==
  Fused => \A i \in 1..Len(initial_results) :
             initial_results[i].score = RankSum(initial_results[i]._id)

\* C2: the lexical list is empty and the vector list is [X, Y]: the fused
\* direct hits are exactly X with 1/61 and then Y with 1/62.
C2_EmptyLexicalList ==
  (Fused /\ bm25_docs = <<>> /\ Len(vector_docs) = 2) =>
     DirectHits = << <<vector_docs[1], Scale \div (k + 1)>>,
                     <<vector_docs[2], Scale \div (k + 2)>> >>

(***************************************************************************)
(* Properties of the returned list                                         *)
(***************************************************************************)
\* The search has returned.
Returned == pc = "done"

\* The positions of the returned rows whose id is id.
RowsOf(id) == {i \in 1..Len(results) : results[i]._id = id}

\* e connects x and y, in either direction.
Connects(e, x, y) ==
  \/ e._from = x /\ e._to = y
  \/ e._from = y /\ e._to = x

\* x and y are one hop apart.
Adjacent(x, y) == \E i \in 1..Len(edges) : Connects(edges[i], x, y)

\* x is a direct hit one hop away from another direct hit.
SeedNextToSeed(x) ==
  x \in DirectIds /\ \E y \in DirectIds : y # x /\ Adjacent(x, y)

\* C3: a direct hit that is also one hop away from another direct hit is
\* returned exactly once, tagged as a direct hit with its fusion score, and
\* is not returned again as an expansion hit.
C3_SeedNotExpanded ==
  Returned =>
    \A i \in 1..Len(initial_results) :
      LET x == initial_results[i]._id IN
        SeedNextToSeed(x) =>
          /\ Cardinality(RowsOf(x)) = 1
          /\ \A j \in RowsOf(x) : /\ results[j].source = "hybrid_search"
                                  /\ results[j].score = initial_results[i].score

\* C4: in the returned list every direct hit precedes every expansion hit,
\* and the direct hits are in descending order of fusion score.
C4_DirectBeforeExpansion ==
  Returned =>
    \A i, j \in 1..Len(results) :
      i < j =>
        /\ ~(results[i].source = "graph_expansion" /\ results[j].source = "hybrid_search")
        /\ (results[i].source = "hybrid_search" /\ results[j].source = "hybrid_search")
             => results[i].score >= results[j].score

\* A search returned direct hits of different scores and expansion hits.
C4_Witness ==
  /\ Returned
  /\ Len(graphMatches) >= 1
  /\ Len(directMatches) >= 2
  /\ directMatches[1].score > directMatches[Len(directMatches)].score

\* C5: the fused list has at most limit entries, holds each entity at most
\* once, and consists of the highest-scoring entities of the union of the two
\* strategy lists.
C5_TopOfUnion ==
  Fused =>
    LET union == Range(bm25_docs) \cup Range(vector_docs) IN
      /\ Len(initial_results) <= limit
      /\ \A i, j \in 1..Len(initial_results) :
           i # j => initial_results[i]._id # initial_results[j]._id
      /\ DirectIds \subseteq union
      /\ \A e \in union \ DirectIds :
           \A i \in 1..Len(initial_results) : initial_results[i].score >= RankSum(e)

\* C6: with the lexical list [A, B] and the vector list [B, C] the fused
\* ranking is B (1/61 + 1/62), then A (1/61), then C (1/62); and whatever the
\* lists, an entity in both lists scores higher than an entity in only one.
C6_OverlapWins ==
  Fused =>
    /\ (/\ Len(bm25_docs) = 2 /\ Len(vector_docs) = 2
        /\ bm25_docs[2] = vector_docs[1] /\ bm25_docs[1] # vector_docs[2])
         => DirectHits = << <<bm25_docs[2], Scale \div (k + 1) + Scale \div (k + 2)>>,
                            <<bm25_docs[1], Scale \div (k + 1)>>,
                            <<vector_docs[2], Scale \div (k + 2)>> >>
    /\ LET fused == Collect(bm25_with_rrf \o vector_with_rrf)
           InBoth(e) == e \in Range(bm25_docs) /\ e \in Range(vector_docs)
           InOne(e) == (e \in Range(bm25_docs)) # (e \in Range(vector_docs))
       IN \A i, j \in 1..Len(fused) :
            (InBoth(fused[i]._id) /\ InOne(fused[j]._id))
              => fused[i].final_score > fused[j].final_score

\* The lists [A, B] and [B, C] have been fused.
C6_Witness ==
  /\ Fused
  /\ Len(bm25_docs) = 2 /\ Len(vector_docs) = 2
  /\ bm25_docs[2] = vector_docs[1]
  /\ bm25_docs[1] # vector_docs[2]
  /\ Len(initial_results) = limit

\* C7: the same query run twice on unchanged data and an unchanged embedding
\* returns the same rows in the same order.
C7_SameOutputAgain ==
  (Returned /\ has_first) => results = first_results

\* The place of id in the ascending order of ids.
IdRank(id) == CHOOSE i \in 1..Len(IdOrder) : IdOrder[i] = id

\* C8: entities whose fusion scores are equal are ranked in the order of
\* their ids, and when the tie falls on the cut at limit the entity with the
\* lower id is the one that is kept.
C8_TiesByEntityId ==
  Fused =>
    /\ \A i, j \in 1..Len(initial_results) :
         (i < j /\ initial_results[i].score = initial_results[j].score)
           => IdRank(initial_results[i]._id) < IdRank(initial_results[j]._id)
    /\ \A e \in (Range(bm25_docs) \cup Range(vector_docs)) \ DirectIds :
         \A i \in 1..Len(initial_results) :
           initial_results[i].score = RankSum(e)
             => IdRank(initial_results[i]._id) < IdRank(e)

\* C9: no entity id occurs more than once in the returned list.
C9_NoDuplicateIds ==
  Returned =>
    \A i, j \in 1..Len(results) : i # j => results[i]._id # results[j]._id

\* The ids returned as expansion hits.
ExpansionIds ==
  {results[i]._id : i \in {j \in 1..Len(results) : results[j].source = "graph_expansion"}}

\* C10: an entity is returned as an expansion hit exactly when it is not a
\* direct hit and is one edge, in either direction, away from a direct hit;
\* every expansion hit names the direct hit it is connected to and the type
\* of the connecting edge.
C10_OneHopExpansion ==
  Returned =>
    /\ \A x \in Range(docs) \cup Range(projects) :
         x \in ExpansionIds <=> (x \notin DirectIds /\ \E y \in DirectIds : Adjacent(x, y))
    /\ \A i \in 1..Len(results) :
         results[i].source = "graph_expansion" =>
           /\ results[i].relationships # {}
           /\ \A rel \in results[i].relationships :
                /\ rel.connected_to \in DirectIds
                /\ \E n \in 1..Len(edges) :
                     /\ Connects(edges[n], results[i]._id, rel.connected_to)
                     /\ edges[n].type = rel.type

(***************************************************************************)
(* Properties of the reported relationships                                *)
(***************************************************************************)
\* Relationship rel, listed on the row of entity `listed`, reports an edge
\* between `listed` and rel.connected_to, and its direction tag is "from"
\* exactly when that edge's source is `anchor`, "to" exactly when its target is.
TagRelativeTo(rel, listed, anchor) ==
  \E n \in 1..Len(edges) :
    /\ Connects(edges[n], listed, rel.connected_to)
    /\ edges[n].type = rel.type /\ edges[n].attr = rel.attr
    /\ rel.direction = "from" <=> edges[n]._from = anchor
    /\ rel.direction = "to" <=> edges[n]._to = anchor

\* C11 (as stated): every direction tag is relative to the seed: "from"
\* exactly when the edge's source is the direct hit, "to" exactly when its
\* target is, on direct hits and on expansion hits alike.
C11_DirectionRelativeToSeed ==
  (Returned /\ variant = "part_008") =>
    \A i \in 1..Len(results) : \A rel \in results[i].relationships :
      TagRelativeTo(rel, results[i]._id,
                    IF results[i].source = "hybrid_search" THEN results[i]._id
                    ELSE rel.connected_to)

\* C11 (amended): every direction tag is relative to the entity the
\* relationship is listed on: "from" exactly when the edge's source is that
\* entity, "to" exactly when its target is.  On a direct hit that entity is
\* the seed; on an expansion hit it is the expansion entity, so the tag is
\* "from" exactly when the edge's target is the seed.
C11_DirectionRelativeToListedEntity ==
  (Returned /\ variant = "part_008") =>
    \A i \in 1..Len(results) : \A rel \in results[i].relationships :
      TagRelativeTo(rel, results[i]._id, results[i]._id)

\* A search returned a direct hit and an expansion hit that both list
\* relationships, with both tags occurring.
C11_Witness ==
  /\ Returned /\ variant = "part_008"
  /\ \E i \in 1..Len(results) :
       /\ results[i].source = "graph_expansion"
       /\ \E rel \in results[i].relationships : rel.direction = "from"
  /\ \E i \in 1..Len(results) :
       /\ results[i].source = "hybrid_search"
       /\ \E rel \in results[i].relationships : rel.direction = "to"

(***************************************************************************)
(* The worked example of the README                                        *)
(***************************************************************************)
\* The lists of the example: BM25 has emma at rank 1 and alice at rank 3,
\* the vector list is [alice, emma, henry].
ReadmeLists ==
  /\ Len(bm25_docs) = limit /\ Len(vector_docs) = limit
  /\ vector_docs[1] = bm25_docs[3]
  /\ vector_docs[2] = bm25_docs[1]

FirstDirectHits ==
  [i \in 1..Len(first_initial) |-> <<first_initial[i]._id, first_initial[i].score>>]

\* C18: with the lexical and the vector list exchanged, every entity gets
\* the same fusion score and the fused direct hits are the same, in the same
\* order.
C18_FusionCommutative ==
  (Fused /\ has_first) =>
    /\ \A i \in 1..Len(initial_results) : \A j \in 1..Len(first_initial) :
         initial_results[i]._id = first_initial[j]._id
           => initial_results[i].score = first_initial[j].score
    /\ DirectHits = FirstDirectHits

(***************************************************************************)
(* Failures and rejected input                                             *)
(***************************************************************************)
\* The statements of search() after the query has been issued.
InQuery == pc \in {"fuse", "expand", "assemble", "done"}

\* C12: with the vector index (dimension 768) in place over stored vectors
\* of that length, a query vector of another length is rejected before any similarity is computed: the search
\* query is never issued with it and no results come back.
C12_DimensionMismatchRejected ==
  (/\ has_index
   /\ \A i \in 1..Len(embeddings) : embeddings[i] = embeddingDimensions
   /\ query_dim # 0 /\ query_dim # embeddingDimensions) =>
    /\ "query" \notin calls
    /\ ~InQuery

\* C13: when embedding the query fails, the invocation ends with an error
\* (exit code 1): no search query is issued, no list is produced.
C13_EmbeddingFailureAborts ==
  failure = "embedding" =>
    /\ pc = "exit" /\ outcome = "exit1"
    /\ "query" \notin calls
    /\ bm25_docs = <<>> /\ vector_docs = <<>> /\ results = <<>>

\* Embedding the query has failed.
C13_Witness ==
  /\ failure = "embedding"
  /\ "embeddings" \in calls
  /\ pc = "exit"

\* C14: when the search query fails the invocation ends with an error (exit
\* code 1) and returns no list; an invocation that ends normally has had no
\* failure, so an empty list returned is never a failed query.
C14_BackendFailureFatal ==
  /\ failure = "backend" => (pc = "exit" /\ outcome = "exit1" /\ results = <<>>)
  /\ Returned => (failure = "none" /\ outcome = "exit0")

\* The query failed after the direct hits had been fused.
C14_Witness ==
  /\ failure = "backend"
  /\ initial_results # <<>>
  /\ pc = "exit"

\* C15: with an absent or empty query string nothing is called: no
\* embedding request, no reset or setup of the database, no search query.
C15_EmptyQueryRejected ==
  argv \in {"undefined", ""} =>
    /\ calls = {}
    /\ pc \in {"main", "returned"}

\* The empty string was given and main has returned.
C15_Witness ==
  /\ argv = ""
  /\ pc = "returned"
  /\ outcome = "exit0"

\* C19: once the documents are ingested, and whenever a search query runs,
\* every stored embedding has exactly 768 dimensions.
C19_StoredEmbeddingsHaveD ==
  (pc = "index" \/ "query" \in calls) =>
    \A i \in 1..Len(embeddings) : embeddings[i] = embeddingDimensions

\* C20: in part_008 an edge whose type has no edge collection is never
\* stored; it ends setup with an error (exit code 1), and the invocation
\* neither creates the index nor searches.
C20_UnknownTypeAborts ==
  variant = "part_008" =>
    /\ \A i \in 1..Len(edges) : edges[i].type \in edgeCollections
    /\ (\E i \in 1..Len(relationships) : relationships[i].type \notin edgeCollections)
         => (pc # "index" /\ pc # "embed" /\ pc # "retrieve" /\ ~InQuery /\ "query" \notin calls)
    /\ failure = "relationship" => (pc = "exit" /\ outcome = "exit1")

\* Setup was ended by the unknown type after the edge before it was saved.
C20_Witness ==
  /\ variant = "part_008"
  /\ failure = "relationship"
  /\ Len(edges) = 1
  /\ pc = "exit"

(***************************************************************************)
(* Concurrent invocations                                                  *)
(***************************************************************************)
\* C16: when invocations run at the same time on one database, the search
\* of each finds the collections, the graph and the index complete: never
\* missing, empty or partly rebuilt.
C16_SearchFindsCompleteData ==
  \A p \in Procs : observed[p] \in {"none", "complete"}

(***************************************************************************)
(* Reset and automatic setup                                               *)
(***************************************************************************)
\* The invocation is inside search(query) or has completed it.
Searching == pc \in {"embed", "retrieve", "fuse", "expand", "assemble", "done"}

\* C21: the reset command leaves no database and is no error, also when no
\* database existed (error 1228); the search invocation that follows a reset
\* finds the knowledge base absent (isDatabaseSetup), runs setupDatabase, and
\* is inside search only when the knowledge base is complete again.
C21_SearchAfterResetRebuilds ==
  variant = "index.ts" =>
    /\ (argv = "reset" /\ pc = "returned" /\ drop_error \in {"none", "1228"}) =>
         (~db_exists /\ outcome = "exit0" /\ failure = "none")
    /\ (previous[1] = "reset" /\ previous[2] = "exit0" /\ Searching) =>
         ({"count", "create", "ensureIndex"} \subseteq calls /\ Complete)

\* A search has completed in the invocation after a reset that dropped an
\* existing database.
C21_Witness ==
  /\ variant = "index.ts"
  /\ previous = <<"reset", "exit0", "none">>
  /\ pc = "done"
  /\ results # <<>>

\* C28: when dropDatabase rejects with any error other than 1228, the
\* invocation ends with that error: neither setupDatabase nor search runs
\* after it.
C28_FailedResetPropagated ==
  drop_error \notin {"none", "1228"} =>
    (pc = "exit" /\ outcome = "exit1" /\ failure = "reset")

\* C26: in the flow isDatabaseSetup, setupDatabase when needed, search of
\* index.ts, the invocation is inside search only when every sample profile
\* with its embedding, every relationship edge and the vector index are
\* stored, also after an earlier invocation whose setup ended part-way.
C26_SearchOnlyOnCompleteBase ==
  (variant = "index.ts" /\ Searching) =>
    /\ Complete
    /\ Len(embeddings) = Len(docs)
    /\ Range(relationships) \subseteq Range(edges)

\* The invocation is inside setupDatabase.
SettingUp == pc \in {"create", "ingest_docs", "ingest_edges", "index"}

\* C27: when setupDatabase has run on a database whose collections, graph,
\* view and index existed, and neither the provider nor the server failed,
\* the collections hold the sample profiles and the relationship edges, each
\* once and nothing else, as after a first run on an empty server.
C27_SetupIdempotent ==
  ("truncate" \in calls /\ ~SettingUp
     /\ failure \notin {"embedding", "backend", "relationship"}) =>
    /\ docs = IngestedDocs(variant)
    /\ projects = IngestedProjects(variant)
    /\ edges = relationships

(***************************************************************************)
(* The score of expansion hits                                             *)
(***************************************************************************)
\* C24: every returned expansion hit has the score 0.005 (200 times the
\* score is 1), however many edges and direct hits connect it and whatever
\* their types; no returned direct hit has that score.
C24_ExpansionScoreFixed ==
  Returned =>
    \A i \in 1..Len(results) :
      (results[i].source = "graph_expansion") <=> (200 * results[i].score = Scale)

\* A search returned direct hits, an expansion hit connected by one edge and
\* an expansion hit connected by edges of two types.
C24_Witness ==
  /\ Returned
  /\ Len(directMatches) >= 1
  /\ \E i, j \in 1..Len(graphMatches) :
       /\ Cardinality(graphMatches[i].relationships) = 1
       /\ \E r1, r2 \in graphMatches[j].relationships : r1.type # r2.type

(***************************************************************************)
(* The order of the stages of one query                                    *)
(***************************************************************************)
\* C25: the search query is issued only after the query vector has been
\* returned; fusion has the complete lexical and vector lists; expansion
\* starts from the fused list; results exist only after expansion and
\* assembly, when the search has completed.
C25_StagesInOrder ==
  /\ "query" \in calls => ("embeddings" \in calls /\ query_dim = provider_dim)
  /\ pc \in {"expand", "assemble", "done"} =>
       /\ "query" \in calls
       /\ bm25_with_rrf = WithRRF(Stored(bm25_ranking))
       /\ vector_with_rrf = WithRRF(Stored(vector_ranking))
  /\ pc \in {"embed", "retrieve", "fuse"} => (initial_results = <<>> /\ related_people = <<>>)
  /\ pc \in {"assemble", "done"} =>
       related_people = RelatedPeople(variant, initial_results, edges)
  /\ pc # "done" => results = <<>>

\* A search with hits in both lists and expansion hits has completed.
C25_Witness ==
  /\ pc = "done"
  /\ bm25_docs # <<>> /\ vector_docs # <<>>
  /\ Len(graphMatches) >= 1
  /\ Len(directMatches) >= 1

C23_ReachesEnd == <>(node = "END")

\* C29: when generate has run, the question it gave to the answer prompt is
\* the first message of the run and the context is the content of the most
\* recent tool message, after any number of rewrites.
C29_GenerateUsesRetrievedDocs ==
  prev_node = "generate" =>
    /\ gen_question = messages[1].content
    /\ ToolMessages(messages) # <<>>
    /\ gen_context = Last(ToolMessages(messages)).content

(***************************************************************************)
(* The chat history of the chains approach                                 *)
(***************************************************************************)
\* The number of questions answered so far.
Answered == IF asking \in {"invoking", "failed"} THEN turn - 1 ELSE turn

\* C30: after n answered questions chatHistory holds 2n messages, Human and
\* AI in turn, in the order of the questions; the chain invoked for the i-th
\* question gets the 2(i-1) messages of the earlier turns; a question whose
\* chain invocation fails leaves chatHistory as it was.
C30_HistoryAlternates ==
  /\ Len(chatHistory) = 2 * Answered
  /\ \A i \in 1..Answered :
       /\ chatHistory[2 * i - 1] = HumanMessage(SessionQuestions[i])
       /\ chatHistory[2 * i].type = "ai"
  /\ asking \in {"invoking", "failed"} =>
       (seen = chatHistory /\ Len(seen) = 2 * (turn - 1))

\* Two questions were answered and the chain has failed on the third.
C30_Witness ==
  /\ asking = "failed"
  /\ turn = 3
  /\ Len(chatHistory) = 4

====
